---- MODULE Spec2Model ----
(***************************************************************************)
(* Model of cisco_sdwan/base/models_base.py: the configuration item model  *)
(* (ConfigItem.save / load / post_data / get_new_name), the index item     *)
(* (IndexConfigItem), and the helpers filename_safe, update_ids and        *)
(* ExtendedTemplate.                                                       *)
(*                                                                         *)
(* A Python str is a sequence of one-character strings.  A JSON object is  *)
(* a function from keys (character sequences) to values (character         *)
(* sequences); json.dumps and json.loads are modelled character by         *)
(* character, escapes included.                                            *)
(***************************************************************************)
EXTENDS Integers, Sequences, FiniteSets, TLC

VARIABLES
    files,      \* the store: file path -> text of the file
    dirs,       \* the store: the directories that exist
    lastSaved,  \* history: file path -> payload of the last save that wrote it
    ret,        \* the last store call: operation, arguments and outcome
    rw,         \* the last rewriting call (update_ids, post_data, put_data, ...)
    index,      \* the IndexConfigItem instance (data, need_extended_name)
    nm,         \* the last naming call (filename_safe, ExtendedTemplate, ...)
    cmp         \* the last comparison call (is_equal)

vars == <<files, dirs, lastSaved, ret, rw, index, nm, cmp>>

---------------------------------------------------------------------------
(* Characters and strings *)

QUOTE == "\""
BSL   == "\\"
FF    == "\f"
NL    == "\n"
TAB   == "\t"
CR    == "\r"
BS    == "<BS>"     \* the backspace character U+0008 (no TLA+ escape for it)

\* Python None where a str is expected: a sequence no str is equal to
None == <<"<None>">>

Uppers == <<"A","B","C","D","E","F","G","H","I","J","K","L","M",
            "N","O","P","Q","R","S","T","U","V","W","X","Y","Z">>
Lowers == <<"a","b","c","d","e","f","g","h","i","j","k","l","m",
            "n","o","p","q","r","s","t","u","v","w","x","y","z">>
Digits == {"0","1","2","3","4","5","6","7","8","9"}
HexDigits == Digits \cup {"a","b","c","d","e","f"}

Range(s) == {s[i] : i \in 1..Len(s)}

Rep(c, n) == [i \in 1..n |-> c]

Min(S) == CHOOSE x \in S : \A y \in S : x <= y
Max(S) == CHOOSE x \in S : \A y \in S : x >= y

\* the concatenation ss[lo] \o ... \o ss[hi] of a sequence of strings
RECURSIVE ConcatRange(_, _, _)
ConcatRange(ss, lo, hi) ==
    IF lo > hi THEN <<>>
    ELSE IF lo = hi THEN ss[lo]
    ELSE LET mid == (lo + hi) \div 2
         IN  ConcatRange(ss, lo, mid) \o ConcatRange(ss, mid + 1, hi)

Concat(ss) == ConcatRange(ss, 1, Len(ss))

\* s[i..] starts with pat (i is 1-based)
StartsWithAt(s, i, pat) ==
    /\ i + Len(pat) - 1 <= Len(s)
    /\ \A k \in 1..Len(pat) : s[i + k - 1] = pat[k]

\* str.lower() on one character
LowerChar(c) ==
    IF \E i \in 1..Len(Uppers) : Uppers[i] = c
    THEN Lowers[CHOOSE i \in 1..Len(Uppers) : Uppers[i] = c]
    ELSE c

\* the regular expression classes \w and \s of Python's re on str patterns:
\* \w is every alphanumeric character and the underscore, \s every whitespace
\* (here: those of ASCII that the names of the model are made of)
IsWordChar(c)  == c \in Range(Uppers) \cup Range(Lowers) \cup Digits \cup {"_"}
IsSpaceChar(c) == c \in {" ", TAB, NL, CR, FF}

---------------------------------------------------------------------------
(* json.dumps / json.loads *)

EmptyDict == [k \in {} |-> <<>>]

\* A JSON value of the model: kind "none" (null), "dict" (an object of string
\* members) or "error" (json.loads raised JSONDecodeError)
JNone     == [kind |-> "none",  d |-> EmptyDict]
JDict(f)  == [kind |-> "dict",  d |-> f]
JError    == [kind |-> "error", d |-> EmptyDict]

\* The member names of the model's payloads, in the order json.dumps writes them
KeyOrder == <<
    <<"t","e","m","p","l","a","t","e","I","d">>,
    <<"n","a","m","e">>,
    <<"d","e","s","c">>,
    <<"@","r","i","d">>,
    <<"c","r","e","a","t","e","d","O","n">>,
    <<"l","a","s","t","U","p","d","a","t","e","d","O","n">> >>

\* json's string escapes (ensure_ascii: every character of the model is ASCII)
EscapeChar(c) ==
    CASE c = QUOTE -> <<BSL, QUOTE>>
      [] c = BSL   -> <<BSL, BSL>>
      [] c = NL    -> <<BSL, "n">>
      [] c = CR    -> <<BSL, "r">>
      [] c = TAB   -> <<BSL, "t">>
      [] c = FF    -> <<BSL, "f">>
      [] c = BS    -> <<BSL, "b">>
      [] OTHER     -> <<c>>

EscapeStr(s) == Concat([i \in 1..Len(s) |-> EscapeChar(s[i])])

DumpStr(s) == <<QUOTE>> \o EscapeStr(s) \o <<QUOTE>>

\* the keys of dict f in the order they are written
KeysOf(f) == SelectSeq(KeyOrder, LAMBDA k : k \in DOMAIN f)

RECURSIVE DumpMembers(_, _, _, _)
DumpMembers(f, keys, sep, first) ==
    IF keys = <<>> THEN <<>>
    ELSE (IF first THEN <<>> ELSE sep)
         \o DumpStr(Head(keys)) \o <<":", " ">> \o DumpStr(f[Head(keys)])
         \o DumpMembers(f, Tail(keys), sep, FALSE)

\* json.dumps(v): separators ', ' and ': '
json_dumps(v) ==
    IF v.kind = "none" THEN <<"n","u","l","l">>
    ELSE <<"{">> \o DumpMembers(v.d, KeysOf(v.d), <<",", " ">>, TRUE) \o <<"}">>

\* json.dump(v, f, indent=2): one member per line, two spaces of indentation
json_dumps_indent(v) ==
    IF v.kind = "none" THEN <<"n","u","l","l">>
    ELSE IF DOMAIN v.d = {} THEN <<"{", "}">>
    ELSE <<"{", NL, " ", " ">>
         \o DumpMembers(v.d, KeysOf(v.d), <<",", NL, " ", " ">>, TRUE)
         \o <<NL, "}">>

IsJsonWs(c) == c \in {" ", TAB, NL, CR}

RECURSIVE SkipWs(_, _)
SkipWs(t, i) == IF i <= Len(t) /\ IsJsonWs(t[i]) THEN SkipWs(t, i + 1) ELSE i

\* the character an escape \c stands for, <<>> when \c is no JSON escape
\* (\uXXXX is never written for the model's characters and cannot arise)
Unescape(c) ==
    CASE c = QUOTE -> <<QUOTE>>
      [] c = BSL   -> <<BSL>>
      [] c = "/"   -> <<"/">>
      [] c = "b"   -> <<BS>>
      [] c = "f"   -> <<FF>>
      [] c = "n"   -> <<NL>>
      [] c = "r"   -> <<CR>>
      [] c = "t"   -> <<TAB>>
      [] OTHER     -> <<>>

\* the number of backslashes that end just before t[j], none before t[lo]
BackslashRun(t, j, lo) ==
    Max({n \in 0..(j - lo) : \A k \in 1..n : t[j - k] = BSL})

\* the body of a JSON string from t[lo] on: [ok, val, next].  The string ends
\* at the first quote that an even number of backslashes precedes; in it a
\* backslash that an even number of backslashes precedes starts an escape.
ParseStrBody(t, lo) ==
    LET ends == {j \in lo..Len(t) : t[j] = QUOTE /\ BackslashRun(t, j, lo) % 2 = 0}
        hi   == Min(ends)
        IsEscape(i)  == t[i] = BSL /\ BackslashRun(t, i, lo) % 2 = 0
        IsEscaped(i) == i > lo /\ IsEscape(i - 1)
        bad  == [ok |-> FALSE, val |-> <<>>, next |-> lo]
    IN  IF ends = {} THEN bad
        ELSE IF \E i \in lo..(hi - 1) :
                   \/ IsEscape(i) /\ Unescape(t[i + 1]) = <<>>
                   \/ ~IsEscape(i) /\ ~IsEscaped(i)      \* strict: no raw control character
                        /\ t[i] \in {NL, CR, TAB, FF, BS}
        THEN bad
        ELSE [ok |-> TRUE, next |-> hi + 1,
              val |-> Concat([n \in 1..(hi - lo) |->
                        LET i == lo + n - 1
                        IN  IF IsEscape(i) THEN Unescape(t[i + 1])
                            ELSE IF IsEscaped(i) THEN <<>>
                            ELSE <<t[i]>>])]

ParseStr(t, i) ==
    IF i <= Len(t) /\ t[i] = QUOTE THEN ParseStrBody(t, i + 1)
    ELSE [ok |-> FALSE, val |-> <<>>, next |-> i]

\* the members of an object from t[i] on (t[i] starts a member name):
\* [ok, d, next]; a repeated name keeps its last value
RECURSIVE ParseMembers(_, _, _)
ParseMembers(t, i, acc) ==
    LET k  == ParseStr(t, i)
        c  == SkipWs(t, k.next)
        v  == ParseStr(t, SkipWs(t, c + 1))
        e  == SkipWs(t, v.next)
        d2 == [x \in DOMAIN acc \cup {k.val} |-> IF x = k.val THEN v.val ELSE acc[x]]
        bad == [ok |-> FALSE, d |-> EmptyDict, next |-> i]
    IN  IF ~k.ok \/ c > Len(t) \/ t[c] # ":" THEN bad
        ELSE IF ~v.ok \/ e > Len(t) THEN bad
        ELSE IF t[e] = "}" THEN [ok |-> TRUE, d |-> d2, next |-> e + 1]
        ELSE IF t[e] = "," THEN ParseMembers(t, SkipWs(t, e + 1), d2)
        ELSE bad

\* json.loads(t)
json_loads(t) ==
    LET i == SkipWs(t, 1)
    IN  IF StartsWithAt(t, i, <<"n","u","l","l">>)
        THEN IF SkipWs(t, i + 4) > Len(t) THEN JNone ELSE JError
        ELSE IF i <= Len(t) /\ t[i] = "{"
        THEN LET j == SkipWs(t, i + 1)
             IN  IF j <= Len(t) /\ t[j] = "}"
                 THEN IF SkipWs(t, j + 1) > Len(t) THEN JDict(EmptyDict) ELSE JError
                 ELSE LET m == ParseMembers(t, j, EmptyDict)
                      IN  IF m.ok /\ SkipWs(t, m.next) > Len(t)
                          THEN JDict(m.d) ELSE JError
        ELSE JError

---------------------------------------------------------------------------
(* Identifiers *)

\* the UUID shape [0-9a-f]{8}-[0-9a-f]{4}-[0-9a-f]{4}-[0-9a-f]{4}-[0-9a-f]{12}
UuidLen == 36

\* the identifier whose hexadecimal digits are all c
U(c) == Rep(c, 8) \o <<"-">> \o Rep(c, 4) \o <<"-">> \o Rep(c, 4) \o <<"-">>
        \o Rep(c, 4) \o <<"-">> \o Rep(c, 12)

U1 == U("1")
U2 == U("2")
U3 == U("3")

---------------------------------------------------------------------------
(* filename_safe, ConfigItem.get_filename *)

\* re.sub(r'[^\w\s-]', '_', name), then str.lower() if lower
filename_safe(name, lower) ==
    LET cleaned == [i \in 1..Len(name) |->
                      IF IsWordChar(name[i]) \/ IsSpaceChar(name[i]) \/ name[i] = "-"
                      THEN name[i] ELSE "_"]
    IN  IF lower THEN [i \in 1..Len(cleaned) |-> LowerChar(cleaned[i])] ELSE cleaned

PhItemName == <<"{","i","t","e","m","_","n","a","m","e","}">>
PhItemId   == <<"{","i","t","e","m","_","i","d","}">>

\* store_file.format(item_name=item_name, item_id=item_id) from character i on
RECURSIVE FormatFrom(_, _, _, _)
FormatFrom(tpl, i, item_name, item_id) ==
    IF i > Len(tpl) THEN <<>>
    ELSE IF StartsWithAt(tpl, i, PhItemName)
        THEN item_name \o FormatFrom(tpl, i + Len(PhItemName), item_name, item_id)
    ELSE IF StartsWithAt(tpl, i, PhItemId)
        THEN item_id \o FormatFrom(tpl, i + Len(PhItemId), item_name, item_id)
    ELSE <<tpl[i]>> \o FormatFrom(tpl, i + 1, item_name, item_id)

\* a file name that never takes the identifier into the name
get_filename_plain(cls, ext_name, item_name, item_id) ==
    IF item_name = None \/ item_id = None
    THEN cls.store_file
    ELSE FormatFrom(cls.store_file, 1, filename_safe(item_name, FALSE), item_id)

\* ConfigItem.get_filename(ext_name, item_name, item_id)
get_filename(cls, ext_name, item_name, item_id) ==
    IF item_name = None \/ item_id = None
    THEN cls.store_file     \* assume store_file does not have variables
    ELSE LET safe_name == IF ~ext_name THEN filename_safe(item_name, FALSE)
                          ELSE filename_safe(item_name, FALSE) \o <<"_">> \o item_id
         IN  FormatFrom(cls.store_file, 1, safe_name, item_id)

---------------------------------------------------------------------------
(* Item types: the class attributes a ConfigItem subclass sets *)

DotJson == <<".","j","s","o","n">>
IdTag   == KeyOrder[1]
NameTag == KeyOrder[2]
DescTag == KeyOrder[3]
RidTag  == KeyOrder[4]

\* an item stored in a file named after it; post_filtered_tags is None, which
\* filters what the empty set does
ClsItem == [store_path |-> <<"templates">>,
            store_file |-> PhItemName \o DotJson,
            id_tag |-> IdTag, name_tag |-> NameTag,
            post_filtered_tags |-> {}]

\* an item (an index) stored in a file with a fixed name
ClsIndex == [store_path |-> <<"inventory">>,
             store_file |-> <<"i","x">> \o DotJson,
             id_tag |-> IdTag, name_tag |-> NameTag,
             post_filtered_tags |-> {DescTag}]

DATA_DIR == "data"

---------------------------------------------------------------------------
(* ConfigItem.save, ConfigItem.load *)

\* ApiItem.is_empty: self.data is None or len(self.data) == 0
is_empty(data) == data.kind = "none" \/ DOMAIN data.d = {}

\* Path(root_dir, node_dir, *store_path) or Path(node_dir, *store_path)
DirPath(cls, node_dir, use_root_dir) ==
    (IF use_root_dir THEN <<DATA_DIR>> ELSE <<>>) \o node_dir \o cls.store_path

FilePath(cls, node_dir, use_root_dir, ext_name, item_name, item_id) ==
    [dir  |-> DirPath(cls, node_dir, use_root_dir),
     file |-> get_filename(cls, ext_name, item_name, item_id)]

\* dir_path.mkdir(parents=True, exist_ok=True)
Mkdir(ds, dir_path) == ds \cup {SubSeq(dir_path, 1, n) : n \in 1..Len(dir_path)}

\* open(path, 'w') and write text: the file is created or truncated
WriteFile(fs, path, text) ==
    [q \in DOMAIN fs \cup {path} |-> IF q = path THEN text ELSE fs[q]]

\* Save with the file opened in append mode
Save_append(cls, data, node_dir, ext_name, item_name, item_id) ==
    LET path == FilePath(cls, node_dir, TRUE, ext_name, item_name, item_id)
        old  == IF path \in DOMAIN files THEN files[path] ELSE <<>>
    IN  /\ IF is_empty(data)
           THEN /\ ret' = [op |-> "save", rv |-> "False", data |-> data, path |-> path,
                           raise_not_found |-> FALSE]
                /\ UNCHANGED <<files, dirs, lastSaved>>
           ELSE /\ dirs' = Mkdir(dirs, path.dir)
                /\ files' = WriteFile(files, path, old \o json_dumps_indent(data))
                /\ lastSaved' = WriteFile(lastSaved, path, data)
                /\ ret' = [op |-> "save", rv |-> "True", data |-> data, path |-> path,
                           raise_not_found |-> FALSE]
        /\ UNCHANGED <<rw, index, nm, cmp>>

\* Save with the directory made before the payload is looked at
Save_mkdir_first(cls, data, node_dir, ext_name, item_name, item_id) ==
    LET path == FilePath(cls, node_dir, TRUE, ext_name, item_name, item_id)
    IN  /\ dirs' = Mkdir(dirs, path.dir)
        /\ IF is_empty(data)
           THEN /\ ret' = [op |-> "save", rv |-> "False", data |-> data, path |-> path,
                           raise_not_found |-> FALSE]
                /\ UNCHANGED <<files, lastSaved, cmp>>
           ELSE /\ files' = WriteFile(files, path, json_dumps_indent(data))
                /\ lastSaved' = WriteFile(lastSaved, path, data)
                /\ ret' = [op |-> "save", rv |-> "True", data |-> data, path |-> path,
                           raise_not_found |-> FALSE]
        /\ UNCHANGED <<rw, index, nm, cmp>>

Save(cls, data, node_dir, ext_name, item_name, item_id) ==
    LET path == FilePath(cls, node_dir, TRUE, ext_name, item_name, item_id)
    IN  /\ IF is_empty(data)
           THEN /\ ret' = [op |-> "save", rv |-> "False", data |-> data, path |-> path,
                           raise_not_found |-> FALSE]
                /\ UNCHANGED <<files, dirs, lastSaved>>
           ELSE /\ dirs' = Mkdir(dirs, path.dir)
                /\ files' = WriteFile(files, path, json_dumps_indent(data))
                /\ lastSaved' = WriteFile(lastSaved, path, data)
                /\ ret' = [op |-> "save", rv |-> "True", data |-> data, path |-> path,
                           raise_not_found |-> FALSE]
        /\ UNCHANGED <<rw, index, nm, cmp>>

\* Load with a JSON error treated like a missing file
Load_suppress(cls, node_dir, ext_name, item_name, item_id, raise_not_found, use_root_dir) ==
    LET path == FilePath(cls, node_dir, use_root_dir, ext_name, item_name, item_id)
        data == json_loads(files[path])
        out(rv, d) == [op |-> "load", rv |-> rv, data |-> d, path |-> path,
                       raise_not_found |-> raise_not_found]
    IN  /\ ret' = IF path \notin DOMAIN files
                  THEN IF raise_not_found THEN out("FileNotFoundError", JNone)
                       ELSE out("None", JNone)
                  ELSE IF data.kind = "error"
                  THEN IF raise_not_found THEN out("ModelException", JNone)
                       ELSE out("None", JNone)
                  ELSE out("item", data)
        /\ UNCHANGED <<files, dirs, lastSaved, rw, index, nm, cmp>>

Load(cls, node_dir, ext_name, item_name, item_id, raise_not_found, use_root_dir) ==
    LET path == FilePath(cls, node_dir, use_root_dir, ext_name, item_name, item_id)
        data == json_loads(files[path])
        out(rv, d) == [op |-> "load", rv |-> rv, data |-> d, path |-> path,
                       raise_not_found |-> raise_not_found]
    IN  /\ ret' = IF path \notin DOMAIN files
                  THEN IF raise_not_found THEN out("FileNotFoundError", JNone)
                       ELSE out("None", JNone)
                  ELSE IF data.kind = "error" THEN out("ModelException", JNone)
                  ELSE out("item", data)
        /\ UNCHANGED <<files, dirs, lastSaved, rw, index, nm, cmp>>

---------------------------------------------------------------------------
(* update_ids, ConfigItem.post_data *)

\* the 1-based places of the hyphens in the UUID shape
UuidHyphens == {9, 14, 19, 24}

\* the UUID regular expression matches t at character i
IsUuidAt(t, i) ==
    /\ i + UuidLen - 1 <= Len(t)
    /\ \A k \in 1..UuidLen :
         IF k \in UuidHyphens THEN t[i + k - 1] = "-" ELSE t[i + k - 1] \in HexDigits

\* replace_id(match): id_mapping_dict.get(matched_id, matched_id)
replace_id(id_mapping_dict, matched_id) ==
    IF matched_id \in DOMAIN id_mapping_dict THEN id_mapping_dict[matched_id]
    ELSE matched_id

\* re.sub(<uuid>, replace_id, t) from character i on: the leftmost matches,
\* none overlapping another, each replaced once
RECURSIVE re_sub_ids(_, _, _)
re_sub_ids(id_mapping_dict, t, i) ==
    LET found == {k \in i..Len(t) : IsUuidAt(t, k)}
        k == Min(found)
    IN  IF found = {} THEN SubSeq(t, i, Len(t))
        ELSE SubSeq(t, i, k - 1)
             \o replace_id(id_mapping_dict, SubSeq(t, k, k + UuidLen - 1))
             \o re_sub_ids(id_mapping_dict, t, k + UuidLen)

\* update_ids(id_mapping_dict, item_data); kind "error" when json.loads raises
update_ids(id_mapping_dict, item_data) ==
    json_loads(re_sub_ids(id_mapping_dict, json_dumps(item_data), 1))

CreatedOnTag     == KeyOrder[5]
LastUpdatedOnTag == KeyOrder[6]

\* post_dict of post_data: self.data without the filtered keys, renamed
post_dict(cls, data, new_name) ==
    LET filtered_keys == {cls.id_tag, RidTag, CreatedOnTag, LastUpdatedOnTag}
                         \cup cls.post_filtered_tags
        kept == [k \in DOMAIN data.d \ filtered_keys |-> data.d[k]]
    IN  IF new_name # None
        THEN JDict([k \in DOMAIN kept \cup {cls.name_tag} |->
                      IF k = cls.name_tag THEN new_name ELSE kept[k]])
        ELSE JDict(kept)

\* ConfigItem.post_data(id_mapping_dict, new_name)
post_data(cls, data, id_mapping_dict, new_name) ==
    update_ids(id_mapping_dict, post_dict(cls, data, new_name))

\* ConfigItem.put_data(id_mapping_dict)
put_data(cls, data, id_mapping_dict) ==
    update_ids(id_mapping_dict,
               JDict([k \in DOMAIN data.d \ {RidTag, CreatedOnTag, LastUpdatedOnTag}
                        |-> data.d[k]]))

---------------------------------------------------------------------------
(* ExtendedTemplate, ConfigItem.get_new_name *)

\* outcomes that are not a str: the exceptions raised
KeyError   == <<"<KeyError>">>
ValueError == <<"<ValueError>">>

\* A regular expression of the model is a sequence of tokens: "(" and ")"
\* (a capturing group, not nested), "." (any character but a newline), ".*"
\* (greedy) and a literal character.
RxTok(type, ch) == [type |-> type, ch |-> ch]

\* re.compile(regex): the tokens of the regex text from character i on
RECURSIVE rx_compile(_, _)
rx_compile(regex, i) ==
    IF i > Len(regex) THEN <<>>
    ELSE IF regex[i] = "(" THEN <<RxTok("open", "(")>> \o rx_compile(regex, i + 1)
    ELSE IF regex[i] = ")" THEN <<RxTok("close", ")")>> \o rx_compile(regex, i + 1)
    ELSE IF regex[i] = "." /\ i < Len(regex) /\ regex[i + 1] = "*"
        THEN <<RxTok("star", ".")>> \o rx_compile(regex, i + 2)
    ELSE IF regex[i] = "." THEN <<RxTok("dot", ".")>> \o rx_compile(regex, i + 1)
    ELSE <<RxTok("lit", regex[i])>> \o rx_compile(regex, i + 1)

\* regex_p.groups
rx_groups(toks) == Cardinality({i \in 1..Len(toks) : toks[i].type = "open"})

\* The match of tokens ti.. at s[pos..]: <<>> when there is none, else the
\* place in s before each of the tokens ti.. and after the last (".*" takes
\* the most characters that let the rest match)
RECURSIVE rx_match(_, _, _, _)
rx_match(toks, ti, s, pos) ==
    LET rest(p) == rx_match(toks, ti + 1, s, p)
        then(p) == IF rest(p) = <<>> THEN <<>> ELSE <<pos>> \o rest(p)
        t == toks[ti]
    IN  IF ti > Len(toks) THEN <<pos>>
        ELSE IF t.type \in {"open", "close"} THEN then(pos)
        ELSE IF t.type = "lit"
            THEN IF pos <= Len(s) /\ s[pos] = t.ch THEN then(pos + 1) ELSE <<>>
        ELSE IF t.type = "dot"
            THEN IF pos <= Len(s) /\ s[pos] # NL THEN then(pos + 1) ELSE <<>>
        ELSE LET run == Max({n \in 0..(Len(s) - pos + 1) :
                               \A k \in 0..(n - 1) : s[pos + k] # NL})
                 ok  == {n \in 0..run : rest(pos + n) # <<>>}
             IN  IF ok = {} THEN <<>> ELSE then(pos + Max(ok))

\* a replacement of the last group alone
rx_expand_last(toks, s, trail) ==
    LET opens == {i \in 1..Len(toks) : toks[i].type = "open"}
        closes == {i \in 1..Len(toks) : toks[i].type = "close"}
    IN  SubSeq(s, trail[Max(opens)], trail[Min({c \in closes : c > Max(opens)})] - 1)

\* the replacement \1\2...: the groups of a match, concatenated
rx_expand(toks, s, trail) ==
    LET opens  == SelectSeq([i \in 1..Len(toks) |-> i], LAMBDA i : toks[i].type = "open")
        close(o) == Min({c \in o..Len(toks) : toks[c].type = "close"})
    IN  Concat([g \in 1..Len(opens) |->
                  SubSeq(s, trail[opens[g]], trail[close(opens[g])] - 1)])

\* regex_p.subn(repl, s): [value, subs].  i: the text from s[i] on is not yet
\* copied; start: where the next search starts; must_advance: the next match
\* may not be an empty one at start (the last match was empty)
RECURSIVE rx_subn(_, _, _, _, _)
rx_subn(toks, s, i, start, must_advance) ==
    LET good(p) == LET m == rx_match(toks, 1, s, p)
                   IN  m # <<>> /\ ~(must_advance /\ p = start /\ m[Len(m)] = p)
        found == {p \in start..(Len(s) + 1) : good(p)}
        b == Min(found)
        m == rx_match(toks, 1, s, b)
        e == m[Len(m)]
        more == rx_subn(toks, s, e, e, e = b)
    IN  IF found = {} THEN [value |-> SubSeq(s, i, Len(s)), subs |-> 0]
        ELSE [value |-> SubSeq(s, i, b - 1) \o rx_expand(toks, s, m) \o more.value,
              subs  |-> 1 + more.subs]

NamePrefix == <<"{","n","a","m","e">>

\* template_pattern {name(?:\s+(?P<regex>.*?))?\} at src[i..]: [ok, has_regex,
\* regex, next].  After {name either whitespace and the shortest text without a
\* newline up to a closing brace (the regex), or the closing brace itself.
template_match(src, i) ==
    LET j  == i + Len(NamePrefix)
        ws == Max({n \in 0..(Len(src) - j + 1) :
                     \A k \in 0..(n - 1) : IsSpaceChar(src[j + k])})
        closes == {e \in (j + ws)..Len(src) : src[e] = "}"}
        e  == Min(closes)
        no == [ok |-> FALSE, has_regex |-> FALSE, regex |-> <<>>, next |-> i]
    IN  IF ~StartsWithAt(src, i, NamePrefix) THEN no
        ELSE IF ws >= 1 /\ closes # {} /\ \A k \in (j + ws)..(e - 1) : src[k] # NL
            THEN [ok |-> TRUE, has_regex |-> TRUE,
                  regex |-> SubSeq(src, j + ws, e - 1), next |-> e + 1]
        ELSE IF j <= Len(src) /\ src[j] = "}"
            THEN [ok |-> TRUE, has_regex |-> FALSE, regex |-> <<>>, next |-> j + 1]
        ELSE no

\* the new_value of a placeholder whose regex is regex_p, r being what
\* regex_p.subn gave: KeyError when the regex has no capturing group
regex_value(regex_p, r) ==
    IF rx_groups(regex_p) = 0 THEN KeyError
    ELSE IF r.subs > 0 THEN r.value ELSE <<>>

\* regex_replace(match_obj): the value of one placeholder
regex_replace(mt, name) ==
    IF mt.has_regex
    THEN regex_value(rx_compile(mt.regex, 1),
                     rx_subn(rx_compile(mt.regex, 1), name, 1, 1, FALSE))
    ELSE name

DigitSeq == <<"0","1","2","3","4","5","6","7","8","9">>
\* 'name_{count}'.format(count=n), n < 10
Label(n) == <<"n","a","m","e","_", DigitSeq[n + 1]>>

\* template_pattern.subn(regex_replace, src_template) from src[i] on:
\* [template, values, error]; values is label_value_map, its labels in order
RECURSIVE template_subn(_, _, _, _)

\* the placeholder mt found at src[k], its value v: the label takes its place
replaced(src, i, name, values, k, mt, v) ==
    LET more == template_subn(src, mt.next, name, Append(values, v))
    IN  IF v = KeyError
        THEN [template |-> <<>>, values |-> values, error |-> TRUE]
        ELSE [template |-> SubSeq(src, i, k - 1) \o <<"{">> \o Label(Len(values))
                            \o <<"}">> \o more.template,
              values |-> more.values, error |-> more.error]

matched(src, i, name, values, k, mt) ==
    replaced(src, i, name, values, k, mt, regex_replace(mt, name))

template_subn(src, i, name, values) ==
    LET found == {k \in i..Len(src) : template_match(src, k).ok}
    IN  IF found = {}
        THEN [template |-> SubSeq(src, i, Len(src)), values |-> values, error |-> FALSE]
        ELSE matched(src, i, name, values, Min(found), template_match(src, Min(found)))

\* template.format(**label_value_map) from template[i] on: a field that is a
\* label is replaced by its value, a field of any other name is a KeyError, a
\* doubled brace is one brace, a brace that opens or closes no field a
\* ValueError (fields with a conversion, a format or an index are not among
\* the model's templates)
RECURSIVE str_format(_, _, _)
str_format(template, i, values) ==
    LET closes == {e \in (i + 1)..Len(template) : template[e] = "}"}
        e == Min(closes)
        field == SubSeq(template, i + 1, e - 1)
        labels == {n \in 0..(Len(values) - 1) : Label(n) = field}
        rest(k) == str_format(template, k, values)
        glue(a, b) == IF b \in {KeyError, ValueError} THEN b ELSE a \o b
    IN  IF i > Len(template) THEN <<>>
        ELSE IF StartsWithAt(template, i, <<"{", "{">>) THEN glue(<<"{">>, rest(i + 2))
        ELSE IF StartsWithAt(template, i, <<"}", "}">>) THEN glue(<<"}">>, rest(i + 2))
        ELSE IF template[i] = "}" THEN ValueError
        ELSE IF template[i] # "{" THEN glue(<<template[i]>>, rest(i + 1))
        ELSE IF closes = {} \/ "{" \in Range(field) THEN ValueError
        ELSE IF labels = {} THEN KeyError
        ELSE glue(values[(CHOOSE n \in labels : TRUE) + 1], rest(e + 1))

\* the end of ExtendedTemplate.__call__, r being what template_pattern.subn
\* gave: a template without {name} is a KeyError
formatted(r) ==
    IF r.error THEN KeyError
    ELSE IF r.values = <<>> THEN KeyError
    ELSE str_format(r.template, 1, r.values)

\* ExtendedTemplate(template)(name): the new name, or the exception raised
ExtendedTemplate(template, name) == formatted(template_subn(template, 1, name, <<>>))

NameMaxLen == 128
NameExcluded == {"&", "<", ">", "!", QUOTE, " "}

\* $ at s[k+1]: the end of s, or just before a newline that ends s
AtDollar(s, k) == k = Len(s) \/ (k = Len(s) - 1 /\ s[Len(s)] = NL)

\* name_check_regex.search(s) is not None, for (?=^.{1,128}$)[^&<>! "]+$:
\* ^ holds at the start of s only, so the match starts there
name_check(s) ==
    /\ \E k \in 1..NameMaxLen :
         k <= Len(s) /\ (\A i \in 1..k : s[i] # NL) /\ AtDollar(s, k)
    /\ \E j \in 1..Len(s) :
         (\A i \in 1..j : s[i] \notin NameExcluded) /\ AtDollar(s, j)

\* the except and else branches of get_new_name, for what the template call
\* gave
name_checked(new_name) ==
    IF new_name = KeyError
    THEN [new_name |-> None, is_valid |-> FALSE, raised |-> FALSE]
    ELSE IF new_name = ValueError
    THEN [new_name |-> None, is_valid |-> FALSE, raised |-> TRUE]
    ELSE [new_name |-> new_name, is_valid |-> name_check(new_name), raised |-> FALSE]

\* ConfigItem.get_new_name(name_template): [new_name, is_valid, raised]; a
\* KeyError (no name in the payload, or raised by the template) gives
\* (None, False), any other exception is raised
get_new_name(cls, data, name_template) ==
    name_checked(IF cls.name_tag \notin DOMAIN data.d THEN KeyError
                 ELSE ExtendedTemplate(name_template, data.d[cls.name_tag]))

---------------------------------------------------------------------------
(* ConfigItem.is_equal *)

\* A dict whose keys keep the order they were inserted in: keys, without
\* repetition, and the value d[k] of each
PyDict(keys, d) == [keys |-> keys, d |-> d]

\* {k: v for k, v in data.items() if k not in removed}
cmp_dict(data, removed) ==
    PyDict(SelectSeq(data.keys, LAMBDA k : k \notin removed),
           [k \in DOMAIN data.d \ removed |-> data.d[k]])

\* json.dumps of a dict, its members in the order of its keys
json_dumps_dict(data) ==
    <<"{">> \o DumpMembers(data.d, data.keys, <<",", " ">>, TRUE) \o <<"}">>

\* the characters json.dumps writes (ensure_ascii), by code point; the
\* backquote, which no text of the model holds, is left out
CodeOrder == <<
    " ", "!", QUOTE, "#", "$", "%", "&", "'", "(", ")", "*", "+", ",", "-", ".", "/",
    "0", "1", "2", "3", "4", "5", "6", "7", "8", "9", ":", ";", "<", "=", ">", "?",
    "@", "A", "B", "C", "D", "E", "F", "G", "H", "I", "J", "K", "L", "M", "N", "O",
    "P", "Q", "R", "S", "T", "U", "V", "W", "X", "Y", "Z", "[", BSL, "]", "^", "_",
    "a", "b", "c", "d", "e", "f", "g", "h", "i", "j", "k", "l", "m", "n", "o",
    "p", "q", "r", "s", "t", "u", "v", "w", "x", "y", "z", "{", "|", "}", "~" >>

\* sorted(text): the characters of text in the order of their code points
sorted(text) ==
    Concat([n \in 1..Len(CodeOrder) |->
              Rep(CodeOrder[n], Cardinality({i \in 1..Len(text) : text[i] = CodeOrder[n]}))])

\* a comparison of the serialized texts as they are written
is_equal_unsorted(cls, data, other) ==
    LET removed == cls.skip_cmp_tag_set \cup {cls.id_tag}
    IN  json_dumps_dict(cmp_dict(data, removed)) = json_dumps_dict(cmp_dict(other, removed))

\* ConfigItem.is_equal(other)
is_equal(cls, data, other) ==
    LET removed == cls.skip_cmp_tag_set \cup {cls.id_tag}
        local_cmp_dict == cmp_dict(data, removed)
        other_cmp_dict == cmp_dict(other, removed)
    IN  sorted(json_dumps_dict(local_cmp_dict)) = sorted(json_dumps_dict(other_cmp_dict))

\* the comparison call: the item's class and payload, the other payload, and
\* what is_equal returned
CmpCall(op, cls, data, other, result) ==
    [op |-> op, cls |-> cls, data |-> data, other |-> other, result |-> result]

\* item types that differ in id_tag and skip_cmp_tag_set
ClsCmp     == [id_tag |-> IdTag, skip_cmp_tag_set |-> {}]
ClsCmpSkip == [id_tag |-> IdTag, skip_cmp_tag_set |-> {LastUpdatedOnTag}]
ClsCmpNoId == [id_tag |-> None, skip_cmp_tag_set |-> {}]

CmpIdle == CmpCall("idle", ClsCmp, PyDict(<<>>, EmptyDict), PyDict(<<>>, EmptyDict), FALSE)

---------------------------------------------------------------------------
(* The store specification: any sequence of save and load calls *)

\* payloads saved: null, the empty object, and objects whose strings need
\* every kind of escape json writes
StorePayloads == {
    JNone,
    JDict(EmptyDict),
    JDict((IdTag :> U1) @@ (NameTag :> <<"a", QUOTE, BSL>>)),
    JDict((NameTag :> <<"b", NL, " ">>) @@ (DescTag :> <<FF, "}", ",">>)) }

\* (item_name, item_id): none given, two names that filename_safe maps to the
\* same file name, and a name without an id
StoreItems == {
    <<None, None>>,
    <<<<"a","/","b">>, U1>>,
    <<<<"a","_","b">>, U1>>,
    <<<<"a","_","b">>, None>> }
SaveNodeDirs == {<<"n1">>}
LoadNodeDirs == {<<"n1">>, <<DATA_DIR, "n1">>}
StoreClasses == {ClsItem}

\* texts that are not JSON: an empty file, a truncated file, a file with text
\* after the object
CorruptTexts == {
    <<>>,
    <<"{", NL, " ", " ", QUOTE, "n", QUOTE, ":", " ">>,
    <<"{", "}", "x">> }

NoFiles == [q \in {} |-> <<>>]
CorruptPath == FilePath(ClsItem, <<"n1">>, TRUE, FALSE, <<"a","_","b">>, U1)

\* the store before the first call: empty, or holding one file that was not
\* written by save
InitialStores ==
    {[files |-> NoFiles, dirs |-> {}]}
    \cup {[files |-> WriteFile(NoFiles, CorruptPath, t),
           dirs |-> Mkdir({}, CorruptPath.dir)] : t \in CorruptTexts}

NoCall == [op |-> "init"]

InitOther ==
    /\ rw = NoCall
    /\ index = NoCall
    /\ nm = NoCall
    /\ cmp = CmpIdle

Init ==
    /\ \E st \in InitialStores : files = st.files /\ dirs = st.dirs
    /\ lastSaved = NoFiles
    /\ ret = [op |-> "init", rv |-> "None", data |-> JNone, path |-> CorruptPath,
              raise_not_found |-> FALSE]
    /\ InitOther

SaveStep ==
    \E cls \in StoreClasses, data \in StorePayloads, node_dir \in SaveNodeDirs,
       ext_name \in BOOLEAN, item \in StoreItems :
        Save(cls, data, node_dir, ext_name, item[1], item[2])

LoadStep ==
    \E cls \in StoreClasses, node_dir \in LoadNodeDirs, ext_name \in BOOLEAN,
       item \in StoreItems, raise_not_found \in BOOLEAN, use_root_dir \in BOOLEAN :
        Load(cls, node_dir, ext_name, item[1], item[2], raise_not_found, use_root_dir)

Next == SaveStep \/ LoadStep

Spec == Init /\ [][Next]_vars

---------------------------------------------------------------------------
(* Claims about the store *)

\* C1: a load whose computed file path was written by a save returns an item
\* whose payload is equal to the payload of the most recent save that wrote
\* to that path.
C1_LoadReturnsLastSave ==
    (ret.op = "load" /\ ret.path \in DOMAIN lastSaved)
        => (ret.rv = "item" /\ ret.data = lastSaved[ret.path])

\* a load read back, through json's escapes, the payload a save wrote
C1_Witness ==
    /\ ret.op = "load"
    /\ ret.path \in DOMAIN lastSaved
    /\ ret.rv = "item"
    /\ NameTag \in DOMAIN ret.data.d
    /\ ret.data.d[NameTag] = <<"a", QUOTE, BSL>>

\* C2: save of a null or zero-length payload returns false and changes neither
\* the files nor the directories of the store; save of any other payload
\* returns true.
C2_EmptySaveIsNoOp ==
    [][ret'.op = "save" =>
         IF is_empty(ret'.data)
         THEN ret'.rv = "False" /\ files' = files /\ dirs' = dirs
         ELSE ret'.rv = "True"]_vars

\* an empty payload was saved onto a path where a file is already present
C2_Witness ==
    /\ ret.op = "save"
    /\ is_empty(ret.data)
    /\ ret.rv = "False"
    /\ ret.path \in DOMAIN files

\* C6: load of an absent file raises FileNotFoundError exactly when
\* raise_not_found is true and returns None otherwise; load of a file that is
\* not JSON raises ModelException whatever raise_not_found is; load never
\* changes the store.
C6_LoadOutcomes ==
    [][ret'.op = "load" =>
         /\ files' = files /\ dirs' = dirs
         /\ ret'.path \notin DOMAIN files =>
                ret'.rv = IF ret'.raise_not_found THEN "FileNotFoundError" ELSE "None"
         /\ ret'.rv = "FileNotFoundError" =>
                (ret'.raise_not_found /\ ret'.path \notin DOMAIN files)
         /\ (ret'.path \in DOMAIN files /\ files[ret'.path] \in CorruptTexts) =>
                ret'.rv = "ModelException"]_vars

\* a file that is not JSON was loaded with raise_not_found false
C6_Witness ==
    /\ ret.op = "load"
    /\ ret.rv = "ModelException"
    /\ ~ret.raise_not_found
    /\ ret.path \in DOMAIN files
    /\ files[ret.path] \in CorruptTexts

---------------------------------------------------------------------------
(* The rewriting specification: update_ids, post_data and put_data applied *)
(* to the mappings and payloads of bounded sets                            *)

MaxPieces == 2
MaxMapSize == 2

\* the identifier f1111111-1111-1111-1111-111111111111
UF == <<"f">> \o Tail(U1)
RwIds == {U1, U2, U3, UF}

\* what the strings of a payload are made of: text, the characters json
\* escapes, identifiers, and parts of an identifier (an identifier without
\* its first digit; an identifier without its first group)
RwPieces == {
    <<"r","e","f","s"," ">>, <<QUOTE>>, <<BSL>>, <<FF>>,
    U1, U2, Tail(U1), SubSeq(U1, 9, UuidLen) }

RECURSIVE PieceStrings(_)
PieceStrings(n) ==
    IF n = 0 THEN {<<>>}
    ELSE LET shorter == PieceStrings(n - 1)
         IN  shorter \cup {s \o p : s \in shorter, p \in RwPieces}

RwStrings == PieceStrings(MaxPieces)

\* items with an identifier, a name and the members post_data filters
RwItems == {
    JDict((IdTag :> U1) @@ (DescTag :> (<<"r","e","f","s"," ">> \o U2))),
    JDict((IdTag :> U1) @@ (NameTag :> <<"n">>) @@ (DescTag :> U2)
          @@ (RidTag :> <<"7">>) @@ (CreatedOnTag :> <<"1">>)
          @@ (LastUpdatedOnTag :> <<"2">>)),
    JDict((IdTag :> U2) @@ (NameTag :> U1) @@ (RidTag :> U1)),
    JDict((NameTag :> UF) @@ (DescTag :> (<<FF>> \o Tail(U1) \o U2))),
    JDict(EmptyDict) }

RwPayloads == {JDict(DescTag :> s) : s \in RwStrings} \cup RwItems

\* id_mapping_dict: old identifier -> new identifier
Mappings ==
    UNION {[D -> RwIds] : D \in {D \in SUBSET RwIds : Cardinality(D) <= MaxMapSize}}

Injective(m) == \A a, b \in DOMAIN m : m[a] = m[b] => a = b
Inverse(m) == [v \in {m[a] : a \in DOMAIN m} |-> CHOOSE a \in DOMAIN m : m[a] = v]

RwNewNames == {None, <<"n","e","w">>, <<"c","_">> \o U2}
RwClasses == {ClsItem, ClsIndex}

RwCall(op, cls, m, data, new_name, result) ==
    [op |-> op, cls |-> cls, m |-> m, data |-> data, new_name |-> new_name,
     result |-> result, self_data |-> data]

\* The mapping and the payload are drawn by Init; each action applies one
\* function to them.
UpdateIds ==
    /\ rw.op = "init"
    /\ rw' = RwCall("update_ids", ClsItem, rw.m, rw.data, None, update_ids(rw.m, rw.data))
    /\ UNCHANGED <<files, dirs, lastSaved, ret, index, nm, cmp>>

\* update_ids(m, update_ids(inverse(m), p)); an exception of the inner call
\* ends the whole
UpdateIdsBack ==
    /\ rw.op = "init"
    /\ Injective(rw.m)
    /\ LET mid == update_ids(Inverse(rw.m), rw.data)
       IN  rw' = RwCall("update_ids_back", ClsItem, rw.m, rw.data, None,
                        IF mid.kind = "error" THEN JError ELSE update_ids(rw.m, mid))
    /\ UNCHANGED <<files, dirs, lastSaved, ret, index, nm, cmp>>

PostData ==
    /\ rw.op = "init"
    /\ rw.data \in RwItems
    /\ \E cls \in RwClasses, new_name \in RwNewNames :
        rw' = RwCall("post_data", cls, rw.m, rw.data, new_name,
                     post_data(cls, rw.data, rw.m, new_name))
    /\ UNCHANGED <<files, dirs, lastSaved, ret, index, nm, cmp>>

PutData ==
    /\ rw.op = "init"
    /\ rw.data \in RwItems
    /\ rw' = RwCall("put_data", ClsItem, rw.m, rw.data, None,
                    put_data(ClsItem, rw.data, rw.m))
    /\ UNCHANGED <<files, dirs, lastSaved, ret, index, nm, cmp>>

InitStoreIdle ==
    /\ files = NoFiles
    /\ dirs = {}
    /\ lastSaved = NoFiles
    /\ ret = [op |-> "init", rv |-> "None", data |-> JNone, path |-> CorruptPath,
              raise_not_found |-> FALSE]

InitRewrite ==
    /\ InitStoreIdle
    /\ \E m \in Mappings, data \in RwPayloads :
         rw = RwCall("init", ClsItem, m, data, None, JNone)
    /\ index = NoCall
    /\ nm = NoCall
    /\ cmp = CmpIdle

NextRewrite == UpdateIds \/ UpdateIdsBack \/ PostData \/ PutData

SpecRewrite == InitRewrite /\ [][NextRewrite]_vars

---------------------------------------------------------------------------
(* Claims about rewriting *)

\* the places of the UUID-shaped tokens of string s from character i on: the
\* leftmost first, none overlapping another
RECURSIVE TokenPlaces(_, _)
TokenPlaces(s, i) ==
    LET found == {k \in i..Len(s) : IsUuidAt(s, k)}
    IN  IF found = {} THEN {} ELSE {Min(found)} \cup TokenPlaces(s, Min(found) + UuidLen)

TokenAt(s, k) == SubSeq(s, k, k + UuidLen - 1)

\* the UUID-shaped tokens of string s
TokensOfStr(s) == {TokenAt(s, k) : k \in TokenPlaces(s, 1)}

\* string s with every UUID-shaped token replaced through m in one pass, a
\* token not in m kept: a character of the result is the character of m's
\* value when it lies in a token that m has, and the character of s otherwise
SubstTokens(m, s) ==
    [i \in 1..Len(s) |->
        IF \E k \in TokenPlaces(s, 1) : k <= i /\ i < k + UuidLen /\ TokenAt(s, k) \in DOMAIN m
        THEN LET k == CHOOSE k \in TokenPlaces(s, 1) : k <= i /\ i < k + UuidLen
             IN  m[TokenAt(s, k)][i - k + 1]
        ELSE s[i]]

\* the identifiers present in payload p
TokensOf(p) == UNION {TokensOfStr(p.d[k]) \cup TokensOfStr(k) : k \in DOMAIN p.d}

\* payload p with the tokens of every string replaced through m
Rewritten(m, p) == JDict([k \in DOMAIN p.d |-> SubstTokens(m, p.d[k])])

\* C3: update_ids(m, p) is p with every UUID-shaped token replaced through m
\* in one simultaneous pass and nothing else changed; update_ids({}, p) is p.
C3_UpdateIdsRewritesTokens ==
    rw.op = "update_ids" =>
        /\ rw.result = Rewritten(rw.m, rw.data)
        /\ DOMAIN rw.m = {} => rw.result = rw.data

\* C4: update_ids(m, update_ids(inverse(m), p)) is p when m is a bijection of
\* the identifiers present in p onto themselves.
C4_InverseThenMappingIsIdentity ==
    (/\ rw.op = "update_ids_back"
     /\ DOMAIN rw.m = TokensOf(rw.data)
     /\ {rw.m[a] : a \in DOMAIN rw.m} = TokensOf(rw.data))
        => rw.result = rw.data

\* C5: post_data(m, new_name) returns a payload without the identifier field,
\* '@rid', 'createdOn', 'lastUpdatedOn' and the post_filtered_tags, whose name
\* field is new_name when one is given, whose other members are those of
\* update_ids(m, payload), and leaves the item's payload as it was.
C5_PostDataPayload ==
    rw.op = "post_data" =>
        LET filtered == {rw.cls.id_tag, RidTag, CreatedOnTag, LastUpdatedOnTag}
                        \cup rw.cls.post_filtered_tags
            renamed  == IF rw.new_name # None THEN {rw.cls.name_tag} ELSE {}
            whole    == update_ids(rw.m, rw.data)
        IN  /\ rw.result.kind = "dict"
            /\ DOMAIN rw.result.d = (DOMAIN rw.data.d \ filtered) \cup renamed
            /\ rw.new_name # None => rw.result.d[rw.cls.name_tag] = rw.new_name
            /\ \A k \in DOMAIN rw.result.d \ renamed :
                   whole.kind = "dict" /\ rw.result.d[k] = whole.d[k]
            /\ rw.self_data = rw.data

----------------------------------------------------------------------------
(* IndexConfigItem *)

\* A Python value that is a list or None
PyList(list) == [is_none |-> FALSE, list |-> list]
PyNone == [is_none |-> TRUE, list |-> <<>>]

\* The argument of the constructor: a dict with or without a 'data' key, or
\* the list itself
IndexArg(is_dict, has_data, list) ==
    [is_dict |-> is_dict, has_data |-> has_data, list |-> list]

\* data.get('data') if isinstance(data, dict) else data
index_data(arg) ==
    IF arg.is_dict /\ ~arg.has_data THEN PyNone ELSE PyList(arg.list)

\* IndexConfigItem.iter(*iter_fields): itemgetter(*iter_fields)(elem) for
\* every elem of data; one field gives the value, several give a tuple
iter(data, iter_fields) ==
    [i \in 1..Len(data) |->
        IF Len(iter_fields) = 1 THEN data[i][iter_fields[1]]
        ELSE [k \in 1..Len(iter_fields) |-> data[i][iter_fields[k]]]]

\* the fields of an entry; ('id', 'name') as an IdName or as a plain tuple
iter_fields == <<"id", "name">>
extended_iter_fields == <<"type">>

\* row.get(field)
row_get(row, field) == IF field \in DOMAIN row THEN row[field] ELSE None

\* IndexConfigItem.extended_iter(): iter_fields and extended_iter_fields of
\* every entry, None for a field the entry lacks
extended_iter(data) ==
    LET fields == iter_fields \o extended_iter_fields
    IN  [i \in 1..Len(data) |-> [k \in 1..Len(fields) |-> row_get(data[i], fields[k])]]

\* need_extended_name with the names compared as written
need_extended_name_cased(is_IdName, data) ==
    IF is_IdName
    THEN Cardinality({filename_safe(n, FALSE) : n \in Range(iter(data, <<"name">>))})
            # Len(data)
    ELSE FALSE

\* IndexConfigItem.__init__: need_extended_name
need_extended_name(is_IdName, data) ==
    IF is_IdName
    THEN LET filename_safe_set ==
                 {filename_safe(item_name, TRUE) : item_name \in Range(iter(data, <<"name">>))}
         IN  Cardinality(filename_safe_set) # Len(data)
    ELSE FALSE

\* the index item: op is "init" before construction, "TypeError" when the
\* constructor raised (iteration over None)
IndexItem(op, is_IdName, arg, data, flag, out) ==
    [op |-> op, is_IdName |-> is_IdName, arg |-> arg, data |-> data,
     need_extended_name |-> flag, out |-> out]

IndexConfigItem(arg, is_IdName) ==
    LET data == index_data(arg)
    IN  IF is_IdName /\ data.is_none
        THEN IndexItem("TypeError", is_IdName, arg, data, FALSE, <<>>)
        ELSE IndexItem("built", is_IdName, arg, data,
                       need_extended_name(is_IdName, data.list), <<>>)

----------------------------------------------------------------------------
(* The naming specification: an index is built and iterated; filename_safe,  *)
(* ExtendedTemplate and get_new_name are applied to names                    *)

MaxEntries == 2
MaxNameLen == 2

IndexNames == {<<"a">>, <<"A">>, <<"a", "/">>, <<"a", "_">>, <<"b">>}
EntryIds == <<U1, U2, U3, UF>>

IndexLists ==
    UNION {{[i \in 1..n |-> [id |-> EntryIds[i], name |-> f[i]]] : f \in [1..n -> IndexNames]}
             : n \in 0..MaxEntries}

IndexArgs ==
    {IndexArg(d, TRUE, l) : d \in BOOLEAN, l \in IndexLists} \cup {IndexArg(TRUE, FALSE, <<>>)}

NameChars == {"a", "B", "/", " ", "-", "_", "&", NL, TAB}

TplName     == <<"{", "n", "a", "m", "e", "}">>
TplGroups   == <<"p", "r", "e", "f", "i", "x", "_", "{", "n", "a", "m", "e", " ", "(", "a", "b", "c", ")", "(", ".", "*", ")", "}">>
TplOneGroup == <<"{", "n", "a", "m", "e", " ", "a", "b", "c", "(", ".", "*", ")", "}">>
TplNoGroup  == <<"{", "n", "a", "m", "e", " ", "a", "b", "c", "}">>
TplNoName   == <<"x", "_">>
TplBrace    == <<"}", "{", "n", "a", "m", "e", "}">>
Templates == {TplName, TplGroups, TplOneGroup, TplNoGroup, TplNoName, TplBrace}

NameAbcXYZ == <<"a", "b", "c", "X", "Y", "Z">>
NameZzz    == <<"z", "z", "z">>

ShortNames ==
    UNION {[1..n -> NameChars] : n \in 0..MaxNameLen}
        \cup {NameAbcXYZ, NameZzz, <<"x", "a", "b", "c", "Y", "a", "b", "c", "Z">>}

LongNames ==
    {Rep("a", NameMaxLen - 1), Rep("a", NameMaxLen), Rep("a", NameMaxLen + 1),
     Rep("a", NameMaxLen) \o <<NL>>, Rep("a", NameMaxLen - 1) \o <<"&">>}

\* (template, name); None is the name of an item whose payload has no name
NamingCases ==
    (Templates \X (ShortNames \cup {None})) \cup ({TplName} \X LongNames)

NameCall(op, name, lower, template, result, is_valid, raised) ==
    [op |-> op, name |-> name, lower |-> lower, template |-> template,
     result |-> result, is_valid |-> is_valid, raised |-> raised]

IndexIdle == IndexItem("idle", FALSE, IndexArg(FALSE, TRUE, <<>>), PyList(<<>>), FALSE, <<>>)
NameIdle == NameCall("idle", None, FALSE, TplName, None, FALSE, FALSE)

\* the payload of an item of the given name
NamePayload(name) == IF name = None THEN JDict(EmptyDict) ELSE JDict(NameTag :> name)

\* the call n after get_new_name returned r
Returned(n, r) ==
    [n EXCEPT !.op = "get_new_name", !.result = r.new_name,
              !.is_valid = r.is_valid, !.raised = r.raised]

Built == {"built", "iter", "extended_iter"}

Construct ==
    /\ index.op = "init"
    /\ index' = IndexConfigItem(index.arg, index.is_IdName)
    /\ UNCHANGED <<files, dirs, lastSaved, ret, rw, nm, cmp>>

\* __iter__: iter(*iter_fields); iterating over None is a TypeError
Iter ==
    /\ index.op \in Built
    /\ index' = IF index.data.is_none
                THEN [index EXCEPT !.op = "TypeError", !.out = <<>>]
                ELSE [index EXCEPT !.op = "iter", !.out = iter(index.data.list, iter_fields)]
    /\ UNCHANGED <<files, dirs, lastSaved, ret, rw, nm, cmp>>

ExtendedIter ==
    /\ index.op \in Built
    /\ index' = IF index.data.is_none
                THEN [index EXCEPT !.op = "TypeError", !.out = <<>>]
                ELSE [index EXCEPT !.op = "extended_iter",
                                   !.out = extended_iter(index.data.list)]
    /\ UNCHANGED <<files, dirs, lastSaved, ret, rw, nm, cmp>>

FilenameSafe ==
    /\ nm.op = "init"
    /\ nm.name # None
    /\ nm' = [nm EXCEPT !.op = "filename_safe", !.result = filename_safe(nm.name, nm.lower)]
    /\ UNCHANGED <<files, dirs, lastSaved, ret, rw, index, cmp>>

TemplateCall ==
    /\ nm.op = "init"
    /\ nm.name # None
    /\ nm' = [nm EXCEPT !.op = "ExtendedTemplate",
                        !.result = ExtendedTemplate(nm.template, nm.name)]
    /\ UNCHANGED <<files, dirs, lastSaved, ret, rw, index, cmp>>

GetNewName ==
    /\ nm.op = "init"
    /\ nm' = Returned(nm, get_new_name(ClsItem, NamePayload(nm.name), nm.template))
    /\ UNCHANGED <<files, dirs, lastSaved, ret, rw, index, cmp>>

InitNaming ==
    /\ InitStoreIdle
    /\ rw = RwCall("idle", ClsItem, EmptyDict, JNone, None, JNone)
    /\ cmp = CmpIdle
    /\ \/ /\ \E arg \in IndexArgs, is_IdName \in BOOLEAN :
               index = IndexItem("init", is_IdName, arg, PyNone, FALSE, <<>>)
          /\ nm = NameIdle
       \/ /\ index = IndexIdle
          /\ \E c \in NamingCases, lower \in BOOLEAN :
               nm = NameCall("init", c[2], lower, c[1], None, FALSE, FALSE)

NextNaming ==
    Construct \/ Iter \/ ExtendedIter \/ FilenameSafe \/ TemplateCall \/ GetNewName

SpecNaming == InitNaming /\ [][NextNaming]_vars

----------------------------------------------------------------------------
(* Claims about naming *)

\* two entries of the list have names whose sanitized, lowercased forms are
\* equal
Collision(list) ==
    \E i, j \in 1..Len(list) :
        i # j /\ filename_safe(list[i].name, TRUE) = filename_safe(list[j].name, TRUE)

\* C7: the need_extended_name of an index with IdName iter_fields is true
\* exactly when two of its entries have names with equal sanitized, lowercased
\* forms, that of an index with other iter_fields is false, and no operation
\* on a built index changes it.
C7_NeedExtendedName ==
    [][/\ index'.op \in Built =>
            index'.need_extended_name =
                (index'.is_IdName /\ Collision(index'.data.list))
       /\ index.op \in Built => index'.need_extended_name = index.need_extended_name]_vars

\* an iterated IdName index of the entries named a and A, which collide only
\* once lowercased
C7_Witness ==
    /\ index.op = "iter"
    /\ index.is_IdName
    /\ Len(index.data.list) = 2
    /\ index.data.list[1].name = <<"a">>
    /\ index.data.list[2].name = <<"A">>
    /\ index.need_extended_name

SafeChars == Range(Uppers) \cup Range(Lowers) \cup Digits \cup {"_", " ", "-"}

\* C8: the result of filename_safe has no character other than a letter, a
\* digit, the underscore, the space and the hyphen.
C8_FilenameSafeChars ==
    nm.op = "filename_safe" => \A i \in 1..Len(nm.result) : nm.result[i] \in SafeChars

ResultPrefix        == <<"p", "r", "e", "f", "i", "x", "_">>
ResultPrefixXYZ     == <<"p", "r", "e", "f", "i", "x", "_", "X", "Y", "Z">>
ResultPrefixAbcXYZ  == <<"p", "r", "e", "f", "i", "x", "_", "a", "b", "c", "X", "Y", "Z">>

\* C9 (as the code has it): the template prefix_{name (abc)(.*)} applied to
\* abcXYZ yields prefix_abcXYZ, the concatenation of both groups after the
\* prefix, and applied to zzz, which the regex does not match, yields prefix_.
C9_TemplateGroups ==
    (nm.op = "ExtendedTemplate" /\ nm.template = TplGroups) =>
        /\ nm.name = NameAbcXYZ => nm.result = ResultPrefixAbcXYZ
        /\ nm.name = NameZzz => nm.result = ResultPrefix

C9_Witness ==
    /\ nm.op = "ExtendedTemplate"
    /\ nm.template = TplGroups
    /\ nm.name = NameAbcXYZ
    /\ nm.result = ResultPrefixAbcXYZ

\* C9 (as stated): the template prefix_{name (abc)(.*)} applied to abcXYZ
\* yields prefix_XYZ, and applied to zzz yields prefix_.
C9_AsStated ==
    (nm.op = "ExtendedTemplate" /\ nm.template = TplGroups) =>
        /\ nm.name = NameAbcXYZ => nm.result = ResultPrefixXYZ
        /\ nm.name = NameZzz => nm.result = ResultPrefix

Forbidden == {"&", "<", ">", "!", QUOTE, " "}

\* C10: get_new_name with the template {name} on an item named s returns s
\* and a validity that is true exactly when s has 1 to 128 characters, none
\* of them & < > ! " or a space, and it does not raise.
C10_NameValidity ==
    (nm.op = "get_new_name" /\ nm.template = TplName /\ nm.name # None) =>
        /\ ~nm.raised
        /\ nm.result = nm.name
        /\ nm.is_valid <=>
             (Len(nm.name) \in 1..128 /\ \A i \in 1..Len(nm.name) : nm.name[i] \notin Forbidden)

---------------------------------------------------------------------------
(* The comparison specification: is_equal is applied to two payloads *)

MaxCmpKeys == 2

CmpKeys == {IdTag, NameTag, LastUpdatedOnTag}
CmpValues == {<<"a">>, <<"b">>}

\* the sequences of up to MaxCmpKeys distinct keys
CmpKeySeqs ==
    UNION {{ks \in [1..n -> CmpKeys] : \A i, j \in 1..n : i # j => ks[i] # ks[j]}
             : n \in 0..MaxCmpKeys}

CmpPayloads ==
    UNION {{PyDict(ks, d) : d \in [Range(ks) -> CmpValues]} : ks \in CmpKeySeqs}

CmpClasses == {ClsCmp, ClsCmpSkip, ClsCmpNoId}

IsEqual ==
    /\ cmp.op = "init"
    /\ cmp' = [cmp EXCEPT !.op = "is_equal",
                          !.result = is_equal(cmp.cls, cmp.data, cmp.other)]
    /\ UNCHANGED <<files, dirs, lastSaved, ret, rw, index, nm>>

InitCompare ==
    /\ InitStoreIdle
    /\ rw = RwCall("idle", ClsItem, EmptyDict, JNone, None, JNone)
    /\ index = IndexIdle
    /\ nm = NameIdle
    /\ \E cls \in CmpClasses, data \in CmpPayloads, other \in CmpPayloads :
         cmp = CmpCall("init", cls, data, other, FALSE)

NextCompare == IsEqual

SpecCompare == InitCompare /\ [][NextCompare]_vars

---------------------------------------------------------------------------
(* Claims about comparison *)

\* the fields is_equal leaves out
Removed(cls) == cls.skip_cmp_tag_set \cup {cls.id_tag}

\* the payload without the removed fields, the other members in their order
Without(p, removed) ==
    LET kept == {i \in 1..Len(p.keys) : p.keys[i] \notin removed}
        nth(n) == CHOOSE i \in kept : Cardinality({j \in kept : j < i}) = n - 1
    IN  PyDict([n \in 1..Cardinality(kept) |-> p.keys[nth(n)]],
               [k \in {p.keys[i] : i \in kept} |-> p.d[k]])

\* texts a and b have the same characters, each as many times
SameCharacters(a, b) ==
    /\ Len(a) = Len(b)
    /\ \A c \in Range(a) \cup Range(b) :
         Cardinality({i \in 1..Len(a) : a[i] = c}) = Cardinality({i \in 1..Len(b) : b[i] = c})

\* payloads p and q have the same members but for the removed fields
DifferInRemovedOnly(p, q, removed) == Without(p, removed) = Without(q, removed)

\* payloads p and q have the same members, in any order
DifferInOrderOnly(p, q) == p.d = q.d

\* C11: is_equal returns true exactly when the two payloads, each without the
\* identifier field and the skip_cmp_tag_set fields, serialize to texts of the
\* same sorted characters; so it returns true for payloads that differ only
\* in the removed fields or only in the order of their keys; and it changes
\* neither payload.
C11_IsEqual ==
    [][cmp'.op = "is_equal" =>
         LET removed == Removed(cmp.cls)
         IN  /\ cmp'.result <=>
                  SameCharacters(json_dumps_dict(Without(cmp.data, removed)),
                                 json_dumps_dict(Without(cmp.other, removed)))
             /\ DifferInRemovedOnly(cmp.data, cmp.other, removed) => cmp'.result
             /\ DifferInOrderOnly(cmp.data, cmp.other) => cmp'.result
             /\ cmp'.data = cmp.data
             /\ cmp'.other = cmp.other]_vars

\* two payloads of the same two members in opposite orders and with different
\* identifiers were found equal
C11_Witness ==
    /\ cmp.op = "is_equal"
    /\ cmp.cls = ClsCmp
    /\ cmp.data = PyDict(<<IdTag, NameTag>>, (IdTag :> <<"a">>) @@ (NameTag :> <<"b">>))
    /\ cmp.other = PyDict(<<NameTag, IdTag>>, (IdTag :> <<"b">>) @@ (NameTag :> <<"b">>))
    /\ cmp.result

---------------------------------------------------------------------------
(* The index store specification: an index is built, and the item of each   *)
(* of its entries is saved and loaded under the name get_filename gives it   *)
(* for the index's need_extended_name                                        *)

\* an item type whose file name holds the name and then the identifier
ClsNameId == [store_path |-> <<"policies">>,
              store_file |-> PhItemName \o PhItemId \o DotJson,
              id_tag |-> IdTag, name_tag |-> NameTag,
              post_filtered_tags |-> {}]

\* the item types of the entries: store_file holds {item_name}
EntryClasses == {ClsItem, ClsNameId}

EntryNodeDir == <<"n1">>

\* the item of an index entry: its identifier and its name
ItemOf(entry) == JDict((IdTag :> entry.id) @@ (NameTag :> entry.name))

SaveEntry ==
    /\ index.op = "built"
    /\ index.is_IdName
    /\ \E i \in 1..Len(index.data.list) :
         LET entry == index.data.list[i]
         IN  Save(ClsItem, ItemOf(entry), EntryNodeDir, index.need_extended_name,
                  entry.name, entry.id)

LoadEntry ==
    /\ index.op = "built"
    /\ index.is_IdName
    /\ \E i \in 1..Len(index.data.list) :
         LET entry == index.data.list[i]
         IN  Load(ClsItem, EntryNodeDir, index.need_extended_name, entry.name, entry.id,
                  FALSE, TRUE)

InitIndexStore ==
    /\ InitStoreIdle
    /\ rw = RwCall("idle", ClsItem, EmptyDict, JNone, None, JNone)
    /\ nm = NameIdle
    /\ cmp = CmpIdle
    /\ \E list \in IndexLists :
         index = IndexItem("init", TRUE, IndexArg(FALSE, TRUE, list), PyNone, FALSE, <<>>)

NextIndexStore == Construct \/ SaveEntry \/ LoadEntry

SpecIndexStore == InitIndexStore /\ [][NextIndexStore]_vars

---------------------------------------------------------------------------
(* Claims about the index store *)

\* the file name of entry i of the index, for an item type
EntryFile(cls, i) ==
    get_filename(cls, index.need_extended_name,
                 index.data.list[i].name, index.data.list[i].id)

\* the path of the file of entry i
EntryPath(i) ==
    FilePath(ClsItem, EntryNodeDir, TRUE, index.need_extended_name,
             index.data.list[i].name, index.data.list[i].id)

\* C12: the entries of an IdName index, of distinct UUID-shaped identifiers
\* and with names, have pairwise distinct file names under the index's
\* need_extended_name, for every store_file that holds {item_name}; so after
\* any saves the file of each saved entry holds that entry's payload, and a
\* load of an entry returns its own payload.
C12_EntryFilesDistinct ==
    (index.op = "built" /\ index.is_IdName) =>
        LET n == Len(index.data.list)
        IN  /\ \A cls \in EntryClasses : \A i, j \in 1..n :
                  i # j => EntryFile(cls, i) # EntryFile(cls, j)
            /\ \A i \in 1..n :
                  EntryPath(i) \in DOMAIN files =>
                      json_loads(files[EntryPath(i)]) = ItemOf(index.data.list[i])
            /\ \A i \in 1..n :
                  (ret.op = "load" /\ ret.rv = "item" /\ ret.path = EntryPath(i)) =>
                      ret.data = ItemOf(index.data.list[i])

\* the entries named a/ and a_, whose sanitized names are equal, were both
\* saved and the first was loaded back
C12_Witness ==
    /\ index.op = "built"
    /\ index.is_IdName
    /\ Len(index.data.list) = 2
    /\ index.data.list[1].name = <<"a", "/">>
    /\ index.data.list[2].name = <<"a", "_">>
    /\ index.need_extended_name
    /\ Cardinality(DOMAIN files) = 2
    /\ ret.op = "load"
    /\ ret.rv = "item"
    /\ ret.data = ItemOf(index.data.list[1])

====
